---- MODULE Spec2Model ----
(***************************************************************************)
(* A model of jsontypedef/json-typedef-python: the instance validator of   *)
(* jtd/validate.py (validate, _ValidationState, _validate_with_state,      *)
(* _validate_int) and the schema model of jtd/schema.py (Schema.validate,  *)
(* Schema.form, Schema.from_dict).                                         *)
(*                                                                         *)
(* Python objects are records of one fixed shape so that any two of them   *)
(* can be compared: py is the Python type, and b, n, s, keys, items hold   *)
(* the payload of that type.  A dict is the pair of parallel sequences     *)
(* keys/items, in insertion order.  A float is n, plus one half when b is  *)
(* set, so that a number with a fractional part is representable.          *)
(***************************************************************************)
EXTENDS Integers, Sequences, FiniteSets, TLC

VARIABLES
  dict,       \* the JSON document given to Schema.from_dict, None when there is none
  schema,     \* the schema of the call
  instance,   \* the instance of the call
  options,    \* the options keyword argument: <<>> when it is not passed
  state,      \* the _ValidationState of the call
  raised,     \* the exception the call raised to its caller, "none" if it returned
  pc          \* "start" before the call, the name of the operation after it

vars == <<dict, schema, instance, options, state, raised, pc>>

----------------------------------------------------------------------------
(* Bounds of the model *)

MaxDepthOpt == 2      \* options.max_depth ranges over 0..MaxDepthOpt
MaxErrorsOpt == 2     \* options.max_errors ranges over 0..MaxErrorsOpt
MaxLen == 2           \* longest JSON array among the instances
StackLimit == 7       \* nested _validate_with_state calls the interpreter allows
MaxNesting == 2       \* keywords between the root of a JSON document and a node

----------------------------------------------------------------------------
(* Python values *)

PyObj(py, b, n, s, keys, items) ==
  [py |-> py, b |-> b, n |-> n, s |-> s, keys |-> keys, items |-> items]

None == PyObj("NoneType", FALSE, 0, "", <<>>, <<>>)
PyBool(b) == PyObj("bool", b, 0, "", <<>>, <<>>)
PyInt(n) == PyObj("int", FALSE, n, "", <<>>, <<>>)
PyFloat(n, half) == PyObj("float", half, n, "", <<>>, <<>>)
PyStr(s) == PyObj("str", FALSE, 0, s, <<>>, <<>>)
PyList(items) == PyObj("list", FALSE, 0, "", <<>>, items)
PyDict(keys, items) == PyObj("dict", FALSE, 0, "", keys, items)

\* Python truth value of an object
Truthy(v) ==
  CASE v.py = "NoneType" -> FALSE
    [] v.py = "bool" -> v.b
    [] v.py = "int" -> v.n # 0
    [] v.py = "float" -> v.n # 0 \/ v.b
    [] v.py = "str" -> v.s # ""
    [] v.py = "list" -> v.items # <<>>
    [] v.py = "dict" -> v.keys # <<>>

\* x in seq
InSeq(x, seq) == \E j \in 1..Len(seq) : seq[j] = x

\* index of key k in a sequence of keys that holds it
IndexOf(k, keys) == CHOOSE j \in 1..Len(keys) : keys[j] = k

\* k in d, d[k] for a dict object d and a str key k
DictHas(d, k) == InSeq(k, d.keys)
DictGet(d, k) == d.items[IndexOf(k, d.keys)]

----------------------------------------------------------------------------
(* Schema: the dataclass of thirteen optional fields.  The fields copied   *)
(* verbatim by from_dict hold Python objects (None when absent); elements  *)
(* and values hold <<>> for None or <<sub-schema>>; definitions,           *)
(* properties, optional_properties and mapping hold <<>> for None or       *)
(* <<[keys, vals]>>, a dict of sub-schemas in insertion order.             *)

Schema(metadata, nullable, definitions, ref, type, enum, elements, properties, optional_properties, additional_properties, values, discriminator, mapping) ==
  [metadata |-> metadata, nullable |-> nullable, definitions |-> definitions,
   ref |-> ref, type |-> type, enum |-> enum, elements |-> elements,
   properties |-> properties, optional_properties |-> optional_properties,
   additional_properties |-> additional_properties, values |-> values,
   discriminator |-> discriminator, mapping |-> mapping]

SchemaDict(keys, vals) == <<[keys |-> keys, vals |-> vals]>>

\* (d or {}) for an optional dict of sub-schemas
OrEmpty(d) == IF d = <<>> THEN [keys |-> <<>>, vals |-> <<>>] ELSE d[1]

_KEYWORDS ==
  <<"metadata", "nullable", "definitions", "ref", "type", "enum", "elements",
    "properties", "optionalProperties", "additionalProperties", "values",
    "discriminator", "mapping">>

_TYPE_VALUES ==
  <<"boolean", "int8", "uint8", "int16", "uint16", "int32", "uint32",
    "float32", "float64", "string", "timestamp">>

\* the table with a row for additional_properties on its own
_VALID_FORMS_additional_alone ==
  << <<FALSE, FALSE, FALSE, FALSE, FALSE, FALSE, FALSE, FALSE, FALSE, FALSE>>,
     <<TRUE, FALSE, FALSE, FALSE, FALSE, FALSE, FALSE, FALSE, FALSE, FALSE>>,
     <<FALSE, TRUE, FALSE, FALSE, FALSE, FALSE, FALSE, FALSE, FALSE, FALSE>>,
     <<FALSE, FALSE, TRUE, FALSE, FALSE, FALSE, FALSE, FALSE, FALSE, FALSE>>,
     <<FALSE, FALSE, FALSE, TRUE, FALSE, FALSE, FALSE, FALSE, FALSE, FALSE>>,
     <<FALSE, FALSE, FALSE, FALSE, TRUE, FALSE, FALSE, FALSE, FALSE, FALSE>>,
     <<FALSE, FALSE, FALSE, FALSE, FALSE, TRUE, FALSE, FALSE, FALSE, FALSE>>,
     <<FALSE, FALSE, FALSE, FALSE, TRUE, TRUE, FALSE, FALSE, FALSE, FALSE>>,
     <<FALSE, FALSE, FALSE, FALSE, FALSE, FALSE, TRUE, FALSE, FALSE, FALSE>>,
     <<FALSE, FALSE, FALSE, FALSE, TRUE, FALSE, TRUE, FALSE, FALSE, FALSE>>,
     <<FALSE, FALSE, FALSE, FALSE, FALSE, TRUE, TRUE, FALSE, FALSE, FALSE>>,
     <<FALSE, FALSE, FALSE, FALSE, TRUE, TRUE, TRUE, FALSE, FALSE, FALSE>>,
     <<FALSE, FALSE, FALSE, FALSE, FALSE, FALSE, FALSE, TRUE, FALSE, FALSE>>,
     <<FALSE, FALSE, FALSE, FALSE, FALSE, FALSE, FALSE, FALSE, TRUE, TRUE>> >>

_VALID_FORMS ==
  << <<FALSE, FALSE, FALSE, FALSE, FALSE, FALSE, FALSE, FALSE, FALSE, FALSE>>,
     <<TRUE, FALSE, FALSE, FALSE, FALSE, FALSE, FALSE, FALSE, FALSE, FALSE>>,
     <<FALSE, TRUE, FALSE, FALSE, FALSE, FALSE, FALSE, FALSE, FALSE, FALSE>>,
     <<FALSE, FALSE, TRUE, FALSE, FALSE, FALSE, FALSE, FALSE, FALSE, FALSE>>,
     <<FALSE, FALSE, FALSE, TRUE, FALSE, FALSE, FALSE, FALSE, FALSE, FALSE>>,
     <<FALSE, FALSE, FALSE, FALSE, TRUE, FALSE, FALSE, FALSE, FALSE, FALSE>>,
     <<FALSE, FALSE, FALSE, FALSE, FALSE, TRUE, FALSE, FALSE, FALSE, FALSE>>,
     <<FALSE, FALSE, FALSE, FALSE, TRUE, TRUE, FALSE, FALSE, FALSE, FALSE>>,
     <<FALSE, FALSE, FALSE, FALSE, TRUE, FALSE, TRUE, FALSE, FALSE, FALSE>>,
     <<FALSE, FALSE, FALSE, FALSE, FALSE, TRUE, TRUE, FALSE, FALSE, FALSE>>,
     <<FALSE, FALSE, FALSE, FALSE, TRUE, TRUE, TRUE, FALSE, FALSE, FALSE>>,
     <<FALSE, FALSE, FALSE, FALSE, FALSE, FALSE, FALSE, TRUE, FALSE, FALSE>>,
     <<FALSE, FALSE, FALSE, FALSE, FALSE, FALSE, FALSE, FALSE, TRUE, TRUE>> >>

\* Schema.form
form(self) ==
  IF self.ref # None THEN "REF"
  ELSE IF self.type # None THEN "TYPE"
  ELSE IF self.enum # None THEN "ENUM"
  ELSE IF self.elements # <<>> THEN "ELEMENTS"
  ELSE IF self.properties # <<>> \/ self.optional_properties # <<>> THEN "PROPERTIES"
  ELSE IF self.values # <<>> THEN "VALUES"
  ELSE IF self.discriminator # None THEN "DISCRIMINATOR"
  ELSE "EMPTY"

----------------------------------------------------------------------------
(* Schema.validate: "none" when the schema is accepted, otherwise the      *)
(* message of the TypeError the first failing check raises.                *)

\* a result of "none" lets the next statement run, an exception ends the call
Then(r, next) == IF r # "none" THEN r ELSE next

form_signature(self) ==
  <<self.ref # None, self.type # None, self.enum # None, self.elements # <<>>,
    self.properties # <<>>, self.optional_properties # <<>>,
    self.additional_properties # None, self.values # <<>>,
    self.discriminator # None, self.mapping # <<>> >>

\* len(enum) != len(set(enum)), for a list of str
HasDuplicates(list) ==
  \E j, k \in 1..Len(list.items) : j # k /\ list.items[j] = list.items[k]

check_nullable(self) ==
  IF self.nullable # None /\ self.nullable.py # "bool" THEN "nullable not bool" ELSE "none"

\* the checks of ref without the lookup in the definitions of the root
check_ref_unresolved(self, root) ==
  IF self.ref # None /\ self.ref.py # "str" THEN "ref not string" ELSE "none"

check_ref(self, root) ==
  IF self.ref # None
  THEN IF self.ref.py # "str" THEN "ref not string"
       ELSE IF root.definitions = <<>> THEN "ref but no definitions"
       ELSE IF ~InSeq(self.ref.s, root.definitions[1].keys) THEN "ref to non-existent definition"
       ELSE "none"
  ELSE "none"

check_type(self) ==
  IF self.type # None /\ ~(self.type.py = "str" /\ InSeq(self.type.s, _TYPE_VALUES))
  THEN "type not valid string value" ELSE "none"

check_enum(self) ==
  IF self.enum # None
  THEN IF self.enum.py # "list" THEN "enum not list"
       ELSE IF Len(self.enum.items) = 0 THEN "enum is empty"
       ELSE IF \E j \in 1..Len(self.enum.items) : self.enum.items[j].py # "str"
            THEN "enum not list of strings"
       ELSE IF HasDuplicates(self.enum) THEN "enum contains duplicates"
       ELSE "none"
  ELSE "none"

check_shared_keys(self) ==
  IF self.properties # <<>> /\ self.optional_properties # <<>>
     /\ \E j \in 1..Len(self.properties[1].keys) :
          InSeq(self.properties[1].keys[j], self.optional_properties[1].keys)
  THEN "properties shares keys with optional_properties" ELSE "none"

check_additional_properties(self) ==
  IF self.additional_properties # None /\ self.additional_properties.py # "str"
  THEN "additional_properties not string" ELSE "none"

check_discriminator(self) ==
  IF self.discriminator # None /\ self.discriminator.py # "str"
  THEN "discriminator not string" ELSE "none"

\* self.discriminator in (d or {}), for an optional dict d of sub-schemas
discriminator_in(self, d) ==
  self.discriminator.py = "str" /\ InSeq(self.discriminator.s, OrEmpty(d).keys)

\* the checks of a mapping value without the one of nullable
check_mapping_value_nullable_allowed(self, v) ==
  IF form(v) # "PROPERTIES" THEN "mapping value not of properties form"
  ELSE IF discriminator_in(self, v.properties)
       THEN "mapping properties redefines discriminator"
  ELSE IF discriminator_in(self, v.optional_properties)
       THEN "mapping optional_properties redefines discriminator"
  ELSE "none"

\* the checks of one mapping value v that follow v.validate(root)
check_mapping_value(self, v) ==
  IF Truthy(v.nullable) THEN "mapping value is nullable"
  ELSE IF form(v) # "PROPERTIES" THEN "mapping value not of properties form"
  ELSE IF discriminator_in(self, v.properties)
       THEN "mapping properties redefines discriminator"
  ELSE IF discriminator_in(self, v.optional_properties)
       THEN "mapping optional_properties redefines discriminator"
  ELSE "none"

check_form(self) ==
  IF ~InSeq(form_signature(self), _VALID_FORMS) THEN "invalid form" ELSE "none"

RECURSIVE Schema_validate(_, _, _)
RECURSIVE validate_each(_, _, _)
RECURSIVE validate_mapping(_, _, _)

\* for v in d.values(): v.validate(root), from the j-th value on
validate_each(d, root, j) ==
  IF d = <<>> THEN "none"
  ELSE IF j > Len(d[1].vals) THEN "none"
  ELSE Then(Schema_validate(d[1].vals[j], root, FALSE), validate_each(d, root, j + 1))

\* the loop over self.mapping.values(), from the j-th value on
validate_mapping(self, root, j) ==
  IF self.mapping = <<>> THEN "none"
  ELSE IF j > Len(self.mapping[1].vals) THEN "none"
  ELSE Then(Schema_validate(self.mapping[1].vals[j], root, FALSE),
       Then(check_mapping_value(self, self.mapping[1].vals[j]),
            validate_mapping(self, root, j + 1)))

\* self.validate(root); is_root is the test self is root
Schema_validate(self, root, is_root) ==
  Then(IF self.definitions # <<>>
       THEN IF ~is_root THEN "non-root definitions"
            ELSE validate_each(self.definitions, root, 1)
       ELSE "none",
  Then(check_nullable(self),
  Then(check_ref(self, root),
  Then(check_type(self),
  Then(check_enum(self),
  Then(IF self.elements # <<>> THEN Schema_validate(self.elements[1], root, FALSE) ELSE "none",
  Then(validate_each(self.properties, root, 1),
  Then(validate_each(self.optional_properties, root, 1),
  Then(check_shared_keys(self),
  Then(check_additional_properties(self),
  Then(IF self.values # <<>> THEN Schema_validate(self.values[1], root, FALSE) ELSE "none",
  Then(check_discriminator(self),
  Then(validate_mapping(self, root, 1),
       check_form(self))))))))))))))

----------------------------------------------------------------------------
(* _ValidationState.  exc is the exception in flight ("none" when there is *)
(* none): a raise sets it, and every later statement of the unwinding      *)
(* frames is skipped, since no frame of _validate_with_state has a try     *)
(* block.                                                                  *)

ValidationOptions(max_depth, max_errors) ==
  [max_depth |-> max_depth, max_errors |-> max_errors]

ValidationError(instance_path, schema_path) ==
  [instance_path |-> instance_path, schema_path |-> schema_path]

_ValidationState(config, root_schema, instance_tokens, schema_tokens, errors) ==
  [config |-> config, root_schema |-> root_schema,
   instance_tokens |-> instance_tokens, schema_tokens |-> schema_tokens,
   errors |-> errors, exc |-> "none"]

Raise(st, e) == [st EXCEPT !.exc = e]

\* list.pop() of the last item
Pop(seq) == SubSeq(seq, 1, Len(seq) - 1)

push_instance_token(st, token) ==
  IF st.exc # "none" THEN st
  ELSE [st EXCEPT !.instance_tokens = Append(@, token)]

pop_instance_token(st) ==
  IF st.exc # "none" THEN st
  ELSE IF st.instance_tokens = <<>> THEN Raise(st, "IndexError")
  ELSE [st EXCEPT !.instance_tokens = Pop(@)]

push_schema_token(st, token) ==
  IF st.exc # "none" THEN st
  ELSE [st EXCEPT !.schema_tokens[Len(st.schema_tokens)] = Append(@, token)]

pop_schema_token(st) ==
  IF st.exc # "none" THEN st
  ELSE IF st.schema_tokens[Len(st.schema_tokens)] = <<>> THEN Raise(st, "IndexError")
  ELSE [st EXCEPT !.schema_tokens[Len(st.schema_tokens)] = Pop(@)]

\* the attribute state.pop_schema_token evaluated and not called
pop_schema_token_uncalled(st) == st

\* push_error raising only once the list is longer than max_errors
push_error_late(st) ==
  IF st.exc # "none" THEN st
  ELSE LET appended ==
             [st EXCEPT !.errors =
                Append(@, ValidationError(st.instance_tokens,
                                          st.schema_tokens[Len(st.schema_tokens)]))]
       IN  IF Len(appended.errors) > st.config.max_errors
           THEN Raise(appended, "_MaxErrorsReached")
           ELSE appended

push_error(st) ==
  IF st.exc # "none" THEN st
  ELSE LET appended ==
             [st EXCEPT !.errors =
                Append(@, ValidationError(st.instance_tokens,
                                          st.schema_tokens[Len(st.schema_tokens)]))]
       IN  IF Len(appended.errors) = st.config.max_errors
           THEN Raise(appended, "_MaxErrorsReached")
           ELSE appended

\* state.schema_tokens.append(frame), state.schema_tokens.pop()
push_frame(st, frame) ==
  IF st.exc # "none" THEN st
  ELSE [st EXCEPT !.schema_tokens = Append(@, frame)]

pop_frame(st) ==
  IF st.exc # "none" THEN st
  ELSE [st EXCEPT !.schema_tokens = Pop(@)]

----------------------------------------------------------------------------
(* The checks of the TYPE and ENUM forms *)

\* strict_rfc3339.validate_rfc3339: the timestamps among the model's strings
Rfc3339Strings == {"1985-04-12T23:20:50Z"}
validate_rfc3339(s) == s \in Rfc3339Strings

IsNumber(v) == v.py \in {"int", "float"}

\* the numeric value of an int, float or bool: <<whole part, has a half>>
Number(v) ==
  CASE v.py = "int" -> <<v.n, FALSE>>
    [] v.py = "float" -> <<v.n, v.b>>
    [] v.py = "bool" -> <<IF v.b THEN 1 ELSE 0, FALSE>>

\* The integer hi * 65536 + lo, 0 <= lo < 65536: the limits of the 32-bit
\* types do not fit the integers of the checker
Big(hi, lo) == [hi |-> hi, lo |-> lo]
FromInt(n) == Big(n \div 65536, n % 65536)

\* instance < limit, instance > limit for a number and a limit
Below(v, limit) ==
  LET n == Number(v)[1]
  IN  n \div 65536 < limit.hi \/ (n \div 65536 = limit.hi /\ n % 65536 < limit.lo)
Above(v, limit) ==
  LET n == Number(v)[1]
  IN  \/ n \div 65536 > limit.hi
      \/ n \div 65536 = limit.hi /\ n % 65536 > limit.lo
      \/ n \div 65536 = limit.hi /\ n % 65536 = limit.lo /\ Number(v)[2]

_validate_int(st, min, max, inst) ==
  IF st.exc # "none" THEN st
  ELSE IF ~IsNumber(inst) THEN push_error(st)
  ELSE IF Number(inst)[2] \/ Below(inst, min) \/ Above(inst, max)
       THEN push_error(st)
       ELSE st

\* Python ==: numbers (bool included) by value, anything else by type and content
PyEq(a, b) ==
  IF a.py \in {"int", "float", "bool"} /\ b.py \in {"int", "float", "bool"}
  THEN Number(a) = Number(b)
  ELSE a = b

\* instance in schema.enum, for the list object schema.enum
InList(inst, list) == \E j \in 1..Len(list.items) : PyEq(inst, list.items[j])

validate_type(st, type, inst) ==
  CASE type = "boolean" -> IF inst.py # "bool" THEN push_error(st) ELSE st
    [] type \in {"float32", "float64"} -> IF ~IsNumber(inst) THEN push_error(st) ELSE st
    [] type = "int8" -> _validate_int(st, FromInt(-128), FromInt(127), inst)
    [] type = "uint8" -> _validate_int(st, FromInt(0), FromInt(255), inst)
    [] type = "int16" -> _validate_int(st, FromInt(-32768), FromInt(32767), inst)
    [] type = "uint16" -> _validate_int(st, FromInt(0), FromInt(65535), inst)
    [] type = "int32" -> _validate_int(st, Big(-32768, 0), Big(32767, 65535), inst)
    [] type = "uint32" -> _validate_int(st, FromInt(0), Big(65535, 65535), inst)
    [] type = "string" -> IF inst.py # "str" THEN push_error(st) ELSE st
    [] OTHER -> IF inst.py # "str" \/ ~validate_rfc3339(inst.s)
                THEN push_error(st) ELSE st

----------------------------------------------------------------------------
(* _validate_with_state.  depth counts the nested calls of the function;   *)
(* the interpreter raises RecursionError beyond StackLimit of them.        *)

\* the test of max_depth with > in place of ==
max_depth_reached_gt(st) == Len(st.schema_tokens) > st.config.max_depth

\* the test that precedes a ref hop
max_depth_reached(st) == Len(st.schema_tokens) = st.config.max_depth

RECURSIVE _validate_with_state(_, _, _, _, _)
RECURSIVE elements_loop(_, _, _, _, _)
RECURSIVE properties_loop(_, _, _, _, _)
RECURSIVE optional_properties_loop(_, _, _, _, _)
RECURSIVE additional_loop(_, _, _, _, _)
RECURSIVE values_loop(_, _, _, _, _)

\* for i, v in enumerate(instance), from the j-th item on
elements_loop(st, self, inst, j, depth) ==
  IF j > Len(inst.items) \/ st.exc # "none" THEN st
  ELSE LET s1 == push_instance_token(st, ToString(j - 1))
           s2 == _validate_with_state(s1, self.elements[1], inst.items[j], None, depth + 1)
           s3 == pop_instance_token(s2)
       IN  elements_loop(s3, self, inst, j + 1, depth)

\* for k, v in (schema.properties or {}).items(), from the j-th item on
properties_loop(st, self, inst, j, depth) ==
  LET props == OrEmpty(self.properties) IN
  IF j > Len(props.keys) \/ st.exc # "none" THEN st
  ELSE LET k == props.keys[j]
           s1 == push_schema_token(st, k)
           s2 == IF DictHas(inst, k)
                 THEN pop_instance_token(
                        _validate_with_state(push_instance_token(s1, k), props.vals[j],
                                             DictGet(inst, k), None, depth + 1))
                 ELSE push_error(s1)
           s3 == pop_schema_token(s2)
       IN  properties_loop(s3, self, inst, j + 1, depth)

\* for k, v in (schema.optional_properties or {}).items(), from the j-th item on
optional_properties_loop(st, self, inst, j, depth) ==
  LET props == OrEmpty(self.optional_properties) IN
  IF j > Len(props.keys) \/ st.exc # "none" THEN st
  ELSE LET k == props.keys[j]
           s1 == push_schema_token(st, k)
           s2 == IF DictHas(inst, k)
                 THEN pop_instance_token(
                        _validate_with_state(push_instance_token(s1, k), props.vals[j],
                                             DictGet(inst, k), None, depth + 1))
                 ELSE s1
           s3 == pop_schema_token(s2)
       IN  optional_properties_loop(s3, self, inst, j + 1, depth)

\* for k in instance, from the j-th key on
additional_loop(st, self, inst, parent_tag, j) ==
  IF j > Len(inst.keys) \/ st.exc # "none" THEN st
  ELSE LET k == inst.keys[j]
           in_props == InSeq(k, OrEmpty(self.properties).keys)
           in_opt_props == InSeq(k, OrEmpty(self.optional_properties).keys)
           s1 == IF ~in_props /\ ~in_opt_props /\ PyStr(k) # parent_tag
                 THEN pop_instance_token(push_error(push_instance_token(st, k)))
                 ELSE st
       IN  additional_loop(s1, self, inst, parent_tag, j + 1)

\* for k, v in instance.items(), from the j-th item on
values_loop(st, self, inst, j, depth) ==
  IF j > Len(inst.keys) \/ st.exc # "none" THEN st
  ELSE LET s1 == push_instance_token(st, inst.keys[j])
           s2 == _validate_with_state(s1, self.values[1], inst.items[j], None, depth + 1)
           s3 == pop_instance_token(s2)
       IN  values_loop(s3, self, inst, j + 1, depth)

validate_ref(st, self, inst, depth) ==
  IF max_depth_reached(st) THEN Raise(st, "MaxDepthExceededError")
  ELSE LET defs == st.root_schema.definitions[1]
           s1 == push_frame(st, <<"definitions", self.ref.s>>)
           s2 == _validate_with_state(s1, defs.vals[IndexOf(self.ref.s, defs.keys)],
                                      inst, None, depth + 1)
       IN  pop_frame(s2)

validate_enum(st, self, inst) ==
  LET s1 == push_schema_token(st, "enum")
      s2 == IF ~InList(inst, self.enum) THEN push_error(s1) ELSE s1
  IN  pop_schema_token(s2)

validate_elements(st, self, inst, depth) ==
  LET s1 == push_schema_token(st, "elements")
      s2 == IF inst.py = "list" THEN elements_loop(s1, self, inst, 1, depth)
            ELSE push_error(s1)
  IN  pop_schema_token(s2)

validate_properties(st, self, inst, parent_tag, depth) ==
  IF inst.py = "dict"
  THEN LET s1 == push_schema_token(st, "properties")
           s2 == pop_schema_token(properties_loop(s1, self, inst, 1, depth))
           s3 == push_schema_token(s2, "optionalProperties")
           s4 == pop_schema_token(optional_properties_loop(s3, self, inst, 1, depth))
       IN  IF ~Truthy(self.additional_properties)
           THEN additional_loop(s4, self, inst, parent_tag, 1)
           ELSE s4
  ELSE IF self.properties # <<>>
  THEN pop_schema_token(push_error(push_schema_token(st, "properties")))
  ELSE pop_schema_token(push_error(push_schema_token(st, "optionalProperties")))

validate_values(st, self, inst, depth) ==
  LET s1 == push_schema_token(st, "values")
      s2 == IF inst.py = "dict" THEN values_loop(s1, self, inst, 1, depth)
            ELSE push_error(s1)
  IN  pop_schema_token(s2)

\* the mapped schema validated without the parent tag
parent_tag_of_none(self) == None

\* parent_tag = schema.discriminator
parent_tag_of(self) == self.discriminator

validate_discriminator(st, self, inst, depth) ==
  LET d == self.discriminator.s
      mapping == self.mapping[1]
  IN
  IF inst.py = "dict"
  THEN IF DictHas(inst, d)
       THEN IF DictGet(inst, d).py = "str"
            THEN IF InSeq(DictGet(inst, d).s, mapping.keys)
                 THEN LET tag == DictGet(inst, d).s
                          sub_schema == mapping.vals[IndexOf(tag, mapping.keys)]
                          s1 == push_schema_token(push_schema_token(st, "mapping"), tag)
                          s2 == _validate_with_state(s1, sub_schema, inst,
                                                     parent_tag_of(self), depth + 1)
                      IN  pop_schema_token(pop_schema_token(s2))
                 ELSE pop_schema_token(pop_instance_token(push_error(
                        push_instance_token(push_schema_token(st, "mapping"), d))))
            ELSE pop_schema_token(pop_instance_token(push_error(
                   push_instance_token(push_schema_token(st, "discriminator"), d))))
       ELSE pop_schema_token(push_error(push_schema_token(st, "discriminator")))
  ELSE pop_schema_token_uncalled(push_error(push_schema_token(st, "discriminator")))

_validate_with_state(st, self, inst, parent_tag, depth) ==
  IF st.exc # "none" THEN st
  ELSE IF depth > StackLimit THEN Raise(st, "RecursionError")
  ELSE IF Truthy(self.nullable) /\ inst = None THEN st
  ELSE CASE form(self) = "REF" -> validate_ref(st, self, inst, depth)
         [] form(self) = "TYPE" ->
              pop_schema_token(validate_type(push_schema_token(st, "type"), self.type.s, inst))
         [] form(self) = "ENUM" -> validate_enum(st, self, inst)
         [] form(self) = "ELEMENTS" -> validate_elements(st, self, inst, depth)
         [] form(self) = "PROPERTIES" -> validate_properties(st, self, inst, parent_tag, depth)
         [] form(self) = "VALUES" -> validate_values(st, self, inst, depth)
         [] form(self) = "DISCRIMINATOR" -> validate_discriminator(st, self, inst, depth)
         [] OTHER -> st

\* validate(schema=..., instance=..., options=...): the state it ends with.
\* _MaxErrorsReached is caught; any other exception reaches the caller.
validate_state(root, inst, config) ==
  _validate_with_state(_ValidationState(config, root, <<>>, <<<<>>>>, <<>>),
                       root, inst, None, 1)

\* the exception validate raises to its caller, "none" when it returns
validate_raises(st) == IF st.exc = "_MaxErrorsReached" THEN "none" ELSE st.exc

----------------------------------------------------------------------------
(* The schemas, instances and options validate is called with *)

Empty == Schema(None, None, <<>>, None, None, None, <<>>, <<>>, <<>>, None, <<>>, None, <<>>)

Type(t) == [Empty EXCEPT !.type = PyStr(t)]
Enum(strs) == [Empty EXCEPT !.enum = PyList([j \in 1..Len(strs) |-> PyStr(strs[j])])]
Ref(name) == [Empty EXCEPT !.ref = PyStr(name)]
Elements(sub) == [Empty EXCEPT !.elements = <<sub>>]
Values(sub) == [Empty EXCEPT !.values = <<sub>>]
Properties(keys, vals) == [Empty EXCEPT !.properties = SchemaDict(keys, vals)]
OptionalProperties(keys, vals) == [Empty EXCEPT !.optional_properties = SchemaDict(keys, vals)]
Additional(s, b) == [s EXCEPT !.additional_properties = PyBool(b)]
Nullable(s) == [s EXCEPT !.nullable = PyBool(TRUE)]
Discriminator(d, keys, vals) ==
  [Empty EXCEPT !.discriminator = PyStr(d), !.mapping = SchemaDict(keys, vals)]

\* the definitions of every root schema: a ref cycle of one and of two hops,
\* a chain of two refs, a nullable cycle and a recursive record
Definitions ==
  SchemaDict(<<"loop", "a", "b", "p", "q", "nl", "r">>,
             <<Ref("loop"), Ref("b"), Type("string"), Ref("q"), Ref("p"),
               Nullable(Ref("nl")), OptionalProperties(<<"x">>, <<Ref("r")>>)>>)

Root(s) == [s EXCEPT !.definitions = Definitions]

RefSchemas == {Ref("loop"), Ref("a"), Ref("b"), Ref("p"), Ref("nl"), Ref("r")}

LeafSchemas ==
  {Empty, Type("string"), Type("uint8"), Type("boolean"), Enum(<<"a", "b">>),
   Nullable(Type("string"))} \cup RefSchemas

SmallLeafSchemas == {Empty, Type("string"), Ref("b"), Ref("loop")}

PropertiesSchemas ==
  {Properties(<<"x">>, <<l>>) : l \in SmallLeafSchemas}
  \cup {Additional(Properties(<<"x">>, <<l>>), b) : l \in {Type("string")}, b \in BOOLEAN}
  \cup {OptionalProperties(<<"x">>, <<l>>) : l \in SmallLeafSchemas}
  \cup {[Properties(<<"x">>, <<l>>) EXCEPT !.optional_properties =
           SchemaDict(<<"y">>, <<Type("uint8")>>)] : l \in {Empty, Type("string")}}
  \cup {Properties(<<>>, <<>>), Properties(<<"y", "x">>, <<Type("string"), Empty>>)}

DiscriminatorSchemas ==
  {Discriminator("t", <<"a", "b">>, <<pf, Properties(<<>>, <<>>)>>) : pf \in PropertiesSchemas}
  \cup {Nullable(Discriminator("t", <<"a">>, <<Properties(<<"x">>, <<Type("string")>>)>>))}

MidSchemas ==
  LeafSchemas \cup PropertiesSchemas \cup DiscriminatorSchemas
  \cup {Elements(l) : l \in LeafSchemas} \cup {Values(l) : l \in LeafSchemas}

NestedSchemas ==
  {Elements(d) : d \in DiscriminatorSchemas}
  \cup {Values(d) : d \in DiscriminatorSchemas}
  \cup {Properties(<<"x", "y">>, <<d, l>>) :
          d \in {Discriminator("t", <<"a">>, <<Properties(<<>>, <<>>)>>), Elements(Type("string"))},
          l \in {Empty, Type("string")}}
  \cup {Discriminator("t", <<"a">>,
          <<Properties(<<"x">>, <<Discriminator("t", <<"a">>, <<Properties(<<>>, <<>>)>>)>>)>>)}
  \cup {Elements(Elements(Type("string")))}
  \cup {Type(_TYPE_VALUES[j]) : j \in 1..Len(_TYPE_VALUES)}

\* the root schemas of the model
Schemas == {Root(s) : s \in MidSchemas \cup NestedSchemas}

Timestamp == "1985-04-12T23:20:50Z"

ScalarInstances ==
  {None, PyBool(TRUE), PyInt(1), PyInt(300), PyFloat(1, TRUE), PyFloat(2, FALSE), PyInt(-1), PyStr("a"), PyStr("zz"),
   PyStr(Timestamp)}

\* a dict of the keys t, x, z in this order, each given as <<>> or <<value>>
Object(t, x, z) ==
  PyDict((IF t = <<>> THEN <<>> ELSE <<"t">>) \o (IF x = <<>> THEN <<>> ELSE <<"x">>)
           \o (IF z = <<>> THEN <<>> ELSE <<"z">>),
         t \o x \o z)

ObjectInstances ==
  {Object(t, x, z) : t \in {<<>>, <<PyStr("a")>>, <<PyStr("zz")>>, <<PyInt(1)>>},
                     x \in {<<>>, <<None>>, <<PyStr("a")>>, <<PyInt(1)>>},
                     z \in {<<>>, <<PyInt(1)>>}}
  \cup {PyDict(<<"x">>, <<PyDict(<<"x">>, <<PyDict(<<>>, <<>>)>>)>>),
        PyDict(<<"x", "y">>, <<PyList(<<PyInt(1)>>), PyInt(300)>>),
        PyDict(<<"x", "t">>, <<PyDict(<<"t">>, <<PyStr("a")>>), PyStr("a")>>),
        PyDict(<<"z", "y", "x">>, <<None, None, None>>)}

ItemInstances ==
  {None, PyInt(1), PyStr("a"), PyDict(<<>>, <<>>), PyDict(<<"t">>, <<PyStr("a")>>),
   PyDict(<<"t", "x">>, <<PyStr("a"), PyInt(1)>>)}

ArrayInstances ==
  UNION {{PyList(items) : items \in [1..n -> ItemInstances]} : n \in 0..MaxLen}

Instances == ScalarInstances \cup ObjectInstances \cup ArrayInstances

----------------------------------------------------------------------------
(* The calls of validate *)

OptionsArguments ==
  {<<>>} \cup {<<ValidationOptions(max_depth, max_errors)>> :
                 max_depth \in 0..MaxDepthOpt, max_errors \in 0..MaxErrorsOpt}

\* kwargs.get('options', ValidationOptions())
config_of(opts) == IF opts = <<>> THEN ValidationOptions(0, 0) ELSE opts[1]

Init ==
  /\ dict = None
  /\ schema \in Schemas
  /\ instance \in Instances
  /\ options \in OptionsArguments
  /\ state = _ValidationState(config_of(options), schema, <<>>, <<<<>>>>, <<>>)
  /\ raised = "none"
  /\ pc = "start"

Called ==
  /\ pc = "start"
  /\ state' = validate_state(schema, instance, config_of(options))
  /\ raised' = validate_raises(state')
  /\ pc' = "validate"
  /\ UNCHANGED <<dict, schema, instance, options>>

\* validate(schema=schema, instance=instance)
Validate == options = <<>> /\ Called

\* validate(schema=schema, instance=instance, options=options)
ValidateWithOptions == options # <<>> /\ Called

Next == Validate \/ ValidateWithOptions

Spec == Init /\ [][Next]_vars

\* validate returned its list of errors
Returned == pc = "validate" /\ raised = "none"

----------------------------------------------------------------------------
(* The schemas Schema.validate is called on *)

\* the node with the form-bearing fields that bits selects, in the order of
\* the form signature; additional_properties is ap when selected
Node(bits, ap) ==
  Schema(None, None, <<>>,
         IF bits[1] THEN PyStr("b") ELSE None,
         IF bits[2] THEN PyStr("string") ELSE None,
         IF bits[3] THEN PyList(<<PyStr("a"), PyStr("b")>>) ELSE None,
         IF bits[4] THEN <<Empty>> ELSE <<>>,
         IF bits[5] THEN SchemaDict(<<"x">>, <<Empty>>) ELSE <<>>,
         IF bits[6] THEN SchemaDict(<<"y">>, <<Empty>>) ELSE <<>>,
         IF bits[7] THEN ap ELSE None,
         IF bits[8] THEN <<Empty>> ELSE <<>>,
         IF bits[9] THEN PyStr("t") ELSE None,
         IF bits[10] THEN SchemaDict(<<"a">>, <<Properties(<<>>, <<>>)>>) ELSE <<>>)

AdditionalPropertiesValues == {PyBool(TRUE), PyBool(FALSE), PyStr("x"), PyInt(1)}

PatternSchemas ==
  {Node(bits, ap) : bits \in [1..10 -> BOOLEAN], ap \in {PyBool(TRUE), PyStr("x")}}

PropertiesNodes ==
  {[n EXCEPT !.additional_properties = ap] :
     n \in {Properties(<<"x">>, <<Type("string")>>),
            OptionalProperties(<<"y">>, <<Empty>>),
            [Properties(<<"x">>, <<Empty>>) EXCEPT
               !.optional_properties = SchemaDict(<<"y">>, <<Ref("b")>>)],
            [Properties(<<"x">>, <<Empty>>) EXCEPT
               !.optional_properties = SchemaDict(<<"x">>, <<Empty>>)]},
     ap \in AdditionalPropertiesValues \cup {None}}

MappingValues ==
  {Properties(<<"x">>, <<Empty>>),
   Nullable(Properties(<<"x">>, <<Empty>>)),
   [Properties(<<"x">>, <<Empty>>) EXCEPT !.nullable = PyBool(FALSE)],
   OptionalProperties(<<"y">>, <<Ref("b")>>),
   Properties(<<"t">>, <<Empty>>),
   OptionalProperties(<<"x", "t">>, <<Empty, Empty>>),
   Properties(<<"x">>, <<Type("bogus")>>),
   [Properties(<<"x">>, <<Empty>>) EXCEPT !.additional_properties = PyStr("x")],
   Empty, Type("string"), Elements(Empty), Ref("b"),
   Discriminator("u", <<"a">>, <<Properties(<<>>, <<>>)>>)}

DiscriminatorNodes ==
  {Discriminator("t", <<"a", "b">>, <<v1, v2>>) : v1 \in MappingValues, v2 \in MappingValues}
  \cup {Discriminator("t", <<>>, <<>>),
        Nullable(Discriminator("t", <<"a">>, <<Properties(<<"x">>, <<Empty>>)>>)),
        [Discriminator("t", <<"a">>, <<Properties(<<"x">>, <<Empty>>)>>)
           EXCEPT !.discriminator = PyInt(1)]}

\* nodes of REF form: a ref that names a definition of the root (b, and loop
\* and p that lie on ref cycles), one that names none, and refs of other types
RefNodes ==
  {[Empty EXCEPT !.ref = r] :
     r \in {PyStr("b"), PyStr("loop"), PyStr("p"), PyStr("c"), PyStr(""), PyInt(1),
            PyBool(TRUE), PyList(<<PyStr("b")>>), PyDict(<<>>, <<>>)}}

\* nodes that carry definitions of their own: empty ones, ones that define
\* the name c that no root defines, and the definitions of the model
DefinitionsNodes ==
  {[n EXCEPT !.definitions = d] :
     n \in {Empty, Type("string"), Ref("b"), Ref("c")},
     d \in {SchemaDict(<<>>, <<>>), SchemaDict(<<"c">>, <<Empty>>),
            SchemaDict(<<"c">>, <<Ref("c")>>), Definitions}}

\* the places of a schema that hold a sub-schema
Wrappers == {"self", "elements", "values", "properties", "optional_properties",
             "mapping", "elements values"}

Wrap(n, w) ==
  CASE w = "self" -> n
    [] w = "elements" -> Elements(n)
    [] w = "values" -> Values(n)
    [] w = "properties" -> Properties(<<"k">>, <<n>>)
    [] w = "optional_properties" -> OptionalProperties(<<"k">>, <<n>>)
    [] w = "mapping" -> Discriminator("u", <<"a">>, <<Properties(<<"k">>, <<n>>)>>)
    [] w = "elements values" -> Elements(Values(n))

\* the root schemas: with the definitions of the model, without definitions,
\* and with the node among the definitions
Roots == {"definitions", "no definitions", "in definitions"}

Place(n, w, r) ==
  CASE r = "definitions" -> Root(Wrap(n, w))
    [] r = "no definitions" -> Wrap(n, w)
    [] r = "in definitions" ->
         [Empty EXCEPT !.definitions = SchemaDict(<<"b", "n">>, <<Empty, Wrap(n, w)>>)]

InitSchema ==
  /\ \E n \in PatternSchemas \cup PropertiesNodes \cup DiscriminatorNodes
                \cup RefNodes \cup DefinitionsNodes,
        w \in Wrappers, r \in Roots : schema = Place(n, w, r)
  /\ dict = None
  /\ instance = None
  /\ options = <<>>
  /\ state = _ValidationState(ValidationOptions(0, 0), schema, <<>>, <<<<>>>>, <<>>)
  /\ raised = "none"
  /\ pc = "start"

\* schema.validate()
SchemaValidate ==
  /\ pc = "start"
  /\ raised' = Schema_validate(schema, schema, TRUE)
  /\ pc' = "Schema.validate"
  /\ UNCHANGED <<dict, schema, instance, options, state>>

NextSchema == SchemaValidate

SpecSchema == InitSchema /\ [][NextSchema]_vars

\* Schema.validate returned without raising, Schema.validate raised
Accepted == pc = "Schema.validate" /\ raised = "none"
Rejected == pc = "Schema.validate" /\ raised # "none"

----------------------------------------------------------------------------
(* Schema.from_dict.  The result is the record of the exception raised     *)
(* ("none" when the call returns) and of the Schema returned.              *)

Returns(sch) == [raised |-> "none", schema |-> sch]
Raises(e) == [raised |-> e, schema |-> Empty]

\* the result of loading one optional field: val is the value of the field
Loaded(val) == [raised |-> "none", val |-> val]
NotLoaded(e) == [raised |-> e, val |-> <<>>]

\* the keywords from_dict looks up with "in", in the order of its statements
SubSchemaKeywords ==
  <<"definitions", "elements", "properties", "optionalProperties", "values", "mapping">>

\* k in v, for a str v.  The strings of the model are atomic: one contains a
\* keyword only when it is that keyword.
InStr(k, v) == v.s = k

\* the exception of the first statement that fails when the argument of
\* from_dict is no dict: "k in v" raises for None, a bool and a number; for a
\* str or a list that holds k, v[k] raises; otherwise v.keys() raises
not_a_dict(v) ==
  IF v.py \in {"NoneType", "bool", "int", "float"}
  THEN "TypeError: argument is not iterable"
  ELSE IF \E j \in 1..Len(SubSchemaKeywords) :
            IF v.py = "str" THEN InStr(SubSchemaKeywords[j], v)
            ELSE InSeq(PyStr(SubSchemaKeywords[j]), v.items)
       THEN "TypeError: indices must be integers"
  ELSE "AttributeError: no attribute keys"

\* the loop over dict.keys() that raises on a key outside _KEYWORDS; this one
\* finds none
illegal_keyword_unchecked(d) == FALSE

illegal_keyword(d) == \E j \in 1..Len(d.keys) : ~InSeq(d.keys[j], _KEYWORDS)

RECURSIVE from_dict(_)
RECURSIVE from_dict_items(_, _)

\* { k: cls.from_dict(v) for k, v in m.items() }, from the j-th item on
from_dict_items(m, j) ==
  IF j > Len(m.items) THEN Loaded(<<>>)
  ELSE LET r == from_dict(m.items[j]) IN
       IF r.raised # "none" THEN NotLoaded(r.raised)
       ELSE LET rest == from_dict_items(m, j + 1) IN
            IF rest.raised # "none" THEN rest
            ELSE Loaded(<<r.schema>> \o rest.val)

\* the field of keyword k that holds a dict of sub-schemas
from_dict_mapping(d, k) ==
  IF ~DictHas(d, k) THEN Loaded(<<>>)
  ELSE IF DictGet(d, k).py # "dict" THEN NotLoaded("AttributeError: no attribute items")
  ELSE LET r == from_dict_items(DictGet(d, k), 1) IN
       IF r.raised # "none" THEN r
       ELSE Loaded(SchemaDict(DictGet(d, k).keys, r.val))

\* the field of keyword k that holds one sub-schema
from_dict_schema(d, k) ==
  IF ~DictHas(d, k) THEN Loaded(<<>>)
  ELSE LET r == from_dict(DictGet(d, k)) IN
       IF r.raised # "none" THEN NotLoaded(r.raised) ELSE Loaded(<<r.schema>>)

\* dict.get(k)
Get(d, k) == IF DictHas(d, k) THEN DictGet(d, k) ELSE None

from_dict(d) ==
  IF d.py # "dict" THEN Raises(not_a_dict(d))
  ELSE
  LET definitions == from_dict_mapping(d, "definitions") IN
  IF definitions.raised # "none" THEN Raises(definitions.raised) ELSE
  LET elements == from_dict_schema(d, "elements") IN
  IF elements.raised # "none" THEN Raises(elements.raised) ELSE
  LET properties == from_dict_mapping(d, "properties") IN
  IF properties.raised # "none" THEN Raises(properties.raised) ELSE
  LET optional_properties == from_dict_mapping(d, "optionalProperties") IN
  IF optional_properties.raised # "none" THEN Raises(optional_properties.raised) ELSE
  LET values == from_dict_schema(d, "values") IN
  IF values.raised # "none" THEN Raises(values.raised) ELSE
  LET mapping == from_dict_mapping(d, "mapping") IN
  IF mapping.raised # "none" THEN Raises(mapping.raised) ELSE
  IF illegal_keyword(d) THEN Raises("AttributeError: illegal keyword") ELSE
  Returns(Schema(Get(d, "metadata"), Get(d, "nullable"), definitions.val,
                 Get(d, "ref"), Get(d, "type"), Get(d, "enum"), elements.val,
                 properties.val, optional_properties.val,
                 Get(d, "additionalProperties"), values.val,
                 Get(d, "discriminator"), mapping.val))

----------------------------------------------------------------------------
(* The JSON documents Schema.from_dict is called on *)

Json(keys, items) == PyDict(keys, items)

\* a sub-schema position: the JSON object that holds v under keyword k
Under(k, v) ==
  CASE k \in {"elements", "values"} -> Json(<<k>>, <<v>>)
    [] k = "definitions" -> Json(<<k>>, <<Json(<<"b">>, <<v>>)>>)
    [] k \in {"properties", "optionalProperties"} -> Json(<<k>>, <<Json(<<"k">>, <<v>>)>>)
    [] k = "mapping" ->
         Json(<<"discriminator", "mapping">>, <<PyStr("t"), Json(<<"a">>, <<v>>)>>)

\* the positions of a node: the root, and up to MaxNesting keywords below it
Paths ==
  UNION {[1..n -> {SubSchemaKeywords[j] : j \in 1..Len(SubSchemaKeywords)}] : n \in 0..MaxNesting}

RECURSIVE At(_, _)
At(v, path) == IF path = <<>> THEN v ELSE Under(Head(path), At(v, Tail(path)))

\* the document with the definitions { "b": {} } when it has none
WithDefinitions(doc) ==
  IF doc.py # "dict" \/ DictHas(doc, "definitions") THEN doc
  ELSE Json(<<"definitions">> \o doc.keys, <<Json(<<"b">>, <<Json(<<>>, <<>>)>>)>> \o doc.items)

\* objects with a key that is no keyword, alone, next to keywords, next to
\* ill-shaped fields and inside metadata, and values that are no object
KeyNodes ==
  {Json(<<>>, <<>>), Json(<<"foo">>, <<PyInt(1)>>), Json(<<"">>, <<None>>),
   Json(<<"type", "foo">>, <<PyStr("string"), Json(<<>>, <<>>)>>),
   Json(<<"foo", "type">>, <<PyInt(1), PyStr("string")>>),
   Json(<<"Type">>, <<PyStr("string")>>),
   Json(<<"optional_properties">>, <<Json(<<>>, <<>>)>>),
   Json(<<"properties", "additional_properties">>, <<Json(<<>>, <<>>), PyBool(TRUE)>>),
   Json(<<"metadata">>, <<Json(<<"foo">>, <<PyInt(1)>>)>>),
   Json(<<"metadata", "type">>,
        <<Json(<<"foo">>, <<Json(<<"bar">>, <<PyInt(1)>>)>>), PyStr("string")>>),
   Json(<<"metadata">>, <<PyInt(1)>>),
   Json(<<"metadata", "foo">>, <<Json(<<>>, <<>>), PyInt(1)>>),
   Json(<<"foo", "elements">>, <<PyInt(1), PyInt(1)>>),
   Json(<<"foo", "properties">>, <<PyInt(1), PyInt(1)>>),
   Json(<<"foo", "definitions">>, <<PyInt(1), PyList(<<>>)>>),
   Json(<<"foo", "values">>, <<PyInt(1), None>>),
   Json(<<"elements", "foo">>, <<Json(<<"foo">>, <<PyInt(1)>>), PyInt(1)>>),
   Json(<<"properties">>, <<PyList(<<Json(<<"foo">>, <<PyInt(1)>>)>>)>>),
   None, PyInt(1), PyBool(TRUE), PyFloat(1, TRUE), PyStr("a"), PyStr("elements"),
   PyList(<<>>), PyList(<<PyStr("mapping")>>), PyList(<<Json(<<>>, <<>>)>>)}

JsonValues ==
  {None, PyBool(TRUE), PyBool(FALSE), PyInt(1), PyInt(0), PyFloat(1, TRUE),
   PyList(<<>>), Json(<<>>, <<>>)}

\* the values of each keyword that from_dict copies verbatim
NullableValues == JsonValues \cup {PyStr("true")}

RefValues == JsonValues \cup {PyStr("b"), PyStr("c"), PyList(<<PyStr("b")>>)}

DiscriminatorValues == JsonValues \cup {PyStr("t"), PyList(<<PyStr("t")>>)}

TypeValues ==
  JsonValues \cup {PyStr("string"), PyStr("uint8"), PyStr("timestamp"), PyStr("foo"),
                   PyStr("String"), PyStr(""), PyList(<<PyStr("string")>>),
                   Json(<<"string">>, <<PyInt(1)>>)}

EnumValues ==
  JsonValues \cup {PyList(<<PyStr("a")>>), PyList(<<PyStr("a"), PyStr("b")>>),
                   PyList(<<PyStr("a"), PyStr("a")>>), PyList(<<PyInt(1)>>),
                   PyList(<<PyStr("a"), None>>), PyList(<<PyStr("a"), PyInt(1)>>),
                   PyList(<<PyList(<<PyStr("a")>>)>>), PyList(<<None>>),
                   PyStr("ab"), Json(<<"a">>, <<PyInt(1)>>)}

KeywordNodes ==
  {Json(<<"nullable">>, <<v>>) : v \in NullableValues}
  \cup {Json(<<"type", "nullable">>, <<PyStr("string"), v>>) : v \in NullableValues}
  \cup {Json(<<"ref">>, <<v>>) : v \in RefValues}
  \cup {Json(<<"discriminator", "mapping">>, <<v, Json(<<>>, <<>>)>>) : v \in DiscriminatorValues}
  \cup {Json(<<"discriminator">>, <<v>>) : v \in DiscriminatorValues}
  \cup {Json(<<"type">>, <<v>>) : v \in TypeValues}
  \cup {Json(<<"enum">>, <<v>>) : v \in EnumValues}
  \cup {Json(<<"enum", "nullable">>, <<v, PyBool(TRUE)>>) : v \in EnumValues}

InitLoad ==
  /\ \E n \in KeyNodes \cup KeywordNodes, path \in Paths, defs \in BOOLEAN :
       /\ At(n, path).py = "dict"
       /\ dict = IF defs THEN WithDefinitions(At(n, path)) ELSE At(n, path)
  /\ schema = Empty
  /\ instance = None
  /\ options = <<>>
  /\ state = _ValidationState(ValidationOptions(0, 0), schema, <<>>, <<<<>>>>, <<>>)
  /\ raised = "none"
  /\ pc = "start"

\* schema = jtd.Schema.from_dict(v)
FromDict ==
  /\ pc = "start"
  /\ LET r == from_dict(dict) IN
       /\ raised' = r.raised
       /\ schema' = r.schema
       /\ pc' = IF r.raised # "none" THEN "Schema.from_dict" ELSE "loaded"
  /\ UNCHANGED <<dict, instance, options, state>>

\* schema.validate(), on the schema from_dict returned
ValidateLoaded ==
  /\ pc = "loaded"
  /\ raised' = Schema_validate(schema, schema, TRUE)
  /\ pc' = "Schema.validate"
  /\ UNCHANGED <<dict, schema, instance, options, state>>

NextLoad == FromDict \/ ValidateLoaded

SpecLoad == InitLoad /\ [][NextLoad]_vars

\* from_dict raised; from_dict returned a Schema
LoadFailed == pc = "Schema.from_dict"
LoadReturned == pc \in {"loaded", "Schema.validate"}

----------------------------------------------------------------------------
(* Properties of validate *)

Min(a, b) == IF a < b THEN a ELSE b

\* the call of the state with max_errors = 0 and the same max_depth
UncappedRun == validate_state(schema, instance, [state.config EXCEPT !.max_errors = 0])

\* C1: when validate with max_errors = 0 returns a list of m errors, validate
\* with max_errors = n > 0 returns, without raising, exactly the first
\* min(n, m) of them in the same order, and so never more than n.
C1_MaxErrorsPrefix ==
  (pc = "validate" /\ state.config.max_errors > 0 /\ validate_raises(UncappedRun) = "none")
    => /\ raised = "none"
       /\ Len(state.errors) <= state.config.max_errors
       /\ state.errors = SubSeq(UncappedRun.errors, 1,
                                Min(state.config.max_errors, Len(UncappedRun.errors)))

\* a call cut short at two errors of a validation that has more
C1_Witness ==
  /\ Returned
  /\ state.config.max_errors = 2
  /\ state.exc = "_MaxErrorsReached"
  /\ Len(UncappedRun.errors) > 2
  /\ Len(state.errors) = 2

\* the definition a ref names in the definitions of root
Target(root, s) ==
  LET defs == root.definitions[1] IN defs.vals[IndexOf(s.ref.s, defs.keys)]

\* following refs from s for hops hops meets only non-nullable refs
RECURSIVE OnlyRefs(_, _, _)
OnlyRefs(root, s, hops) ==
  /\ form(s) = "REF"
  /\ ~Truthy(s.nullable)
  /\ (hops > 0 => OnlyRefs(root, Target(root, s), hops - 1))

\* the root is a ref on a cycle of non-nullable refs: more hops than there
\* are definitions never leave the refs
RefCycle(root) == OnlyRefs(root, root, Len(root.definitions[1].keys))

\* C2: on a cycle of refs walked non-nullably, validate with max_depth > 0
\* ends by raising MaxDepthExceededError to the caller, after max_depth - 1
\* ref hops and with no error list; with max_depth = 0 it never raises
\* MaxDepthExceededError.
C2_CycleRaisesMaxDepth ==
  pc = "validate" =>
    /\ (RefCycle(schema) /\ state.config.max_depth > 0)
         => /\ raised = "MaxDepthExceededError"
            /\ state.errors = <<>>
            /\ Len(state.schema_tokens) = state.config.max_depth
    /\ state.config.max_depth = 0 => raised # "MaxDepthExceededError"

\* the two-hop cycle p -> q -> p cut at max_depth = 2
C2_Witness ==
  /\ pc = "validate"
  /\ schema = Root(Ref("p"))
  /\ state.config.max_depth = 2
  /\ raised = "MaxDepthExceededError"
  /\ state.schema_tokens = << <<>>, <<"definitions", "p">> >>

\* the number of refs followed from s before a schema that is no ref, for a
\* chain shorter than fuel
RECURSIVE ChainLength(_, _, _)
ChainLength(root, s, fuel) ==
  IF form(s) # "REF" \/ fuel = 0 THEN 0
  ELSE 1 + ChainLength(root, Target(root, s), fuel - 1)

RECURSIVE ChainEnd(_, _, _)
ChainEnd(root, s, fuel) ==
  IF form(s) # "REF" \/ fuel = 0 THEN s ELSE ChainEnd(root, Target(root, s), fuel - 1)

\* the root is a chain of non-nullable refs that ends at a schema holding no
\* sub-schema: the walk has exactly ChainLength refs active at once
RefChain(root) ==
  LET n == Len(root.definitions[1].keys)
      end == ChainEnd(root, root, n)
  IN  /\ form(root) = "REF"
      /\ form(end) \in {"EMPTY", "TYPE", "ENUM"}
      /\ \A k \in 0..(ChainLength(root, root, n) - 1) :
           ~Truthy(ChainEnd(root, root, k).nullable)

\* C3: max_depth = N > 0 is the greatest number of refs active at once: a
\* walk with at most N of them active completes without
\* MaxDepthExceededError, a walk that needs N + 1 raises it.
C3_MaxDepthCountsRefs ==
  (pc = "validate" /\ state.config.max_depth > 0 /\ RefChain(schema))
    => LET active == ChainLength(schema, schema, Len(schema.definitions[1].keys))
       IN  /\ active <= state.config.max_depth => raised # "MaxDepthExceededError"
           /\ active > state.config.max_depth => raised = "MaxDepthExceededError"

\* C4: when validate finishes, by completion, by the max_errors exit or by
\* MaxDepthExceededError, instance_tokens is empty and schema_tokens is one
\* empty frame.
C4_PathStackBalance ==
  pc = "validate" => /\ state.instance_tokens = <<>>
                     /\ state.schema_tokens = << <<>> >>

\* no ref in the schema s nor in a schema it holds
RECURSIVE NoRef(_)
NoRef(s) ==
  /\ form(s) # "REF"
  /\ s.elements # <<>> => NoRef(s.elements[1])
  /\ s.values # <<>> => NoRef(s.values[1])
  /\ \A d \in {s.properties, s.optional_properties, s.mapping} :
       d # <<>> => \A j \in 1..Len(d[1].vals) : NoRef(d[1].vals[j])

NoLimits == state.config = ValidationOptions(0, 0)

\* validate(schema=sub, instance=v) with no options, sub taken as a schema of
\* its own with the definitions of root
Alone(root, sub, v) ==
  validate_state([sub EXCEPT !.definitions = root.definitions], v, ValidationOptions(0, 0))

\* an error emitted inside a ref: its schema_path is the path of the ref frame
InRef(e) == e.schema_path # <<>> /\ e.schema_path[1] = "definitions"

\* errs with every instance_path prefixed by itoks and every schema_path by stoks
Prefixed(errs, itoks, stoks) ==
  [j \in 1..Len(errs) |->
     ValidationError(itoks \o errs[j].instance_path, stoks \o errs[j].schema_path)]

\* the same, an error emitted inside a ref keeping its schema_path
PrefixedOutsideRefs(errs, itoks, stoks) ==
  [j \in 1..Len(errs) |->
     ValidationError(itoks \o errs[j].instance_path,
                     IF InRef(errs[j]) THEN errs[j].schema_path
                     ELSE stoks \o errs[j].schema_path)]

\* the errors of the items of an array from the j-th on, each validated alone
RECURSIVE ElementErrors(_, _, _, _)
ElementErrors(root, sub, items, j) ==
  IF j > Len(items) THEN <<>>
  ELSE Prefixed(Alone(root, sub, items[j]).errors, <<ToString(j - 1)>>, <<"elements">>)
         \o ElementErrors(root, sub, items, j + 1)

\* C6: for an ELEMENTS schema whose sub-schema S holds no ref, an array and
\* no limits, the errors are, in index order, those of validating each item
\* against S alone, under the instance token of its index and the schema
\* token "elements"; when S is of DISCRIMINATOR form and the item i is not
\* an object its error is ([i], ["elements", "discriminator"]).
C6_ElementsConcatenation ==
  (/\ pc = "validate" /\ NoLimits
   /\ form(schema) = "ELEMENTS" /\ instance.py = "list"
   /\ NoRef(schema.elements[1]))
    => /\ raised = "none"
       /\ state.errors = ElementErrors(schema, schema.elements[1], instance.items, 1)
       /\ (/\ form(schema.elements[1]) = "DISCRIMINATOR"
           /\ ~Truthy(schema.elements[1].nullable)
           /\ \A j \in 1..Len(instance.items) : instance.items[j].py # "dict")
            => state.errors =
                 [j \in 1..Len(instance.items) |->
                    ValidationError(<<ToString(j - 1)>>, <<"elements", "discriminator">>)]

\* the tag of the instance and the schema the mapping gives it
TagOf(self, inst) == DictGet(inst, self.discriminator.s).s
MappedSchema(self, inst) ==
  self.mapping[1].vals[IndexOf(TagOf(self, inst), self.mapping[1].keys)]
Mapped(self, inst) ==
  /\ DictHas(inst, self.discriminator.s)
  /\ DictGet(inst, self.discriminator.s).py = "str"
  /\ InSeq(TagOf(self, inst), self.mapping[1].keys)

\* the validation of the instance against the mapped schema, under the
\* options of the call, the tag key exempt from the additional properties
MappedRun ==
  _validate_with_state(_ValidationState(state.config, schema, <<>>, <<<<>>>>, <<>>),
                       MappedSchema(schema, instance), instance, schema.discriminator, 1)

\* the first three cases of C7: the one error of an object without a usable tag
C7_TagErrors ==
  LET d == schema.discriminator.s IN
  CASE ~DictHas(instance, d) ->
         state.errors = <<ValidationError(<<>>, <<"discriminator">>)>>
    [] DictHas(instance, d) /\ DictGet(instance, d).py # "str" ->
         state.errors = <<ValidationError(<<d>>, <<"discriminator">>)>>
    [] DictHas(instance, d) /\ DictGet(instance, d).py = "str" /\ ~Mapped(schema, instance) ->
         state.errors = <<ValidationError(<<d>>, <<"mapping">>)>>
    [] OTHER -> TRUE

C7_Case == pc = "validate" /\ form(schema) = "DISCRIMINATOR" /\ instance.py = "dict"

\* C7 as stated: for a DISCRIMINATOR schema and an object, one error
\* ([], ["discriminator"]) without the tag key, one ([d], ["discriminator"])
\* for a tag that is no string, one ([d], ["mapping"]) for a tag the mapping
\* lacks; otherwise the errors of the mapped schema, every schema_path
\* prefixed by ["mapping", tag], the key d never reported.
C7_AllPrefixed ==
  C7_Case =>
    /\ C7_TagErrors
    /\ Mapped(schema, instance) =>
         /\ state.errors = Prefixed(MappedRun.errors, <<>>, <<"mapping", TagOf(schema, instance)>>)
         /\ \A j \in 1..Len(state.errors) :
              state.errors[j].instance_path # <<schema.discriminator.s>>

\* C7 as amended: the same, but an error emitted inside a ref followed from
\* the mapped schema keeps the schema_path of its ref frame; the others are
\* prefixed by ["mapping", tag].
C7_PrefixedOutsideRefs ==
  C7_Case =>
    /\ C7_TagErrors
    /\ Mapped(schema, instance) =>
         /\ state.errors =
              PrefixedOutsideRefs(MappedRun.errors, <<>>, <<"mapping", TagOf(schema, instance)>>)
         /\ state.exc = MappedRun.exc
         /\ \A j \in 1..Len(state.errors) :
              state.errors[j].instance_path # <<schema.discriminator.s>>

\* a mapped schema that reports one error inside a ref and one outside,
\* for an instance that only has the tag key beside the reported ones
C7_Witness ==
  /\ C7_Case /\ Returned
  /\ Mapped(schema, instance)
  /\ \E j \in 1..Len(state.errors) : InRef(state.errors[j])
  /\ \E j \in 1..Len(state.errors) :
       /\ Len(state.errors[j].schema_path) >= 2
       /\ SubSeq(state.errors[j].schema_path, 1, 2) = <<"mapping", TagOf(schema, instance)>>

\* the errors of the required properties from the j-th on, as C8 lists them
RECURSIVE RequiredErrors(_, _, _)
RequiredErrors(root, inst, j) ==
  LET props == OrEmpty(root.properties) IN
  IF j > Len(props.keys) THEN <<>>
  ELSE LET k == props.keys[j] IN
       (IF DictHas(inst, k)
        THEN PrefixedOutsideRefs(Alone(root, props.vals[j], DictGet(inst, k)).errors,
                                 <<k>>, <<"properties", k>>)
        ELSE <<ValidationError(<<>>, <<"properties", k>>)>>)
         \o RequiredErrors(root, inst, j + 1)

RECURSIVE OptionalErrors(_, _, _)
OptionalErrors(root, inst, j) ==
  LET props == OrEmpty(root.optional_properties) IN
  IF j > Len(props.keys) THEN <<>>
  ELSE LET k == props.keys[j] IN
       (IF DictHas(inst, k)
        THEN PrefixedOutsideRefs(Alone(root, props.vals[j], DictGet(inst, k)).errors,
                                 <<k>>, <<"optionalProperties", k>>)
        ELSE <<>>)
         \o OptionalErrors(root, inst, j + 1)

RECURSIVE AdditionalErrors(_, _, _)
AdditionalErrors(root, inst, j) ==
  IF j > Len(inst.keys) THEN <<>>
  ELSE (IF \/ InSeq(inst.keys[j], OrEmpty(root.properties).keys)
           \/ InSeq(inst.keys[j], OrEmpty(root.optional_properties).keys)
        THEN <<>>
        ELSE <<ValidationError(<<inst.keys[j]>>, <<>>)>>)
         \o AdditionalErrors(root, inst, j + 1)

\* C8: for a PROPERTIES schema, an object and no limits, the errors are those
\* of the required properties in declaration order (([], ["properties", k])
\* for a missing key, else the errors of the value under the instance token
\* k), then those of the optional properties present, then, unless
\* additional_properties is true, ([k], []) for each other key of the instance
\* in instance order; an instance that is no object has one error, with a
\* schema_path ending in "properties" if properties is present and in
\* "optionalProperties" otherwise.
C8_PropertiesOrder ==
  (/\ pc = "validate" /\ NoLimits /\ raised = "none"
   /\ form(schema) = "PROPERTIES"
   /\ ~(Truthy(schema.nullable) /\ instance = None))
    => IF instance.py = "dict"
       THEN state.errors =
              RequiredErrors(schema, instance, 1) \o OptionalErrors(schema, instance, 1)
                \o (IF schema.additional_properties = PyBool(TRUE) THEN <<>>
                    ELSE AdditionalErrors(schema, instance, 1))
       ELSE /\ Len(state.errors) = 1
            /\ state.errors[1].instance_path = <<>>
            /\ state.errors[1].schema_path # <<>>
            /\ state.errors[1].schema_path[Len(state.errors[1].schema_path)] =
                 (IF schema.properties # <<>> THEN "properties" ELSE "optionalProperties")

----------------------------------------------------------------------------
(* Properties of Schema.validate and Schema.form *)

\* the schema without its additional_properties
WithoutAdditional(s) == [s EXCEPT !.additional_properties = None]

\* C5: Schema.validate rejects a schema whose additional_properties is
\* present and no boolean, and accepts a schema of PROPERTIES form whose
\* additional_properties is true or false and that meets every other rule,
\* that is: that is accepted once additional_properties is taken away.
C5_AdditionalPropertiesBoolean ==
  pc = "Schema.validate" =>
    /\ (schema.additional_properties # None /\ schema.additional_properties.py # "bool")
         => raised # "none"
    /\ (/\ form(schema) = "PROPERTIES"
        /\ schema.additional_properties.py = "bool"
        /\ Schema_validate(WithoutAdditional(schema), WithoutAdditional(schema), TRUE) = "none")
         => raised = "none"

\* the presence pattern of the ten form-bearing fields, in the order ref,
\* type, enum, elements, properties, optional_properties,
\* additional_properties, values, discriminator, mapping
Pattern(s) ==
  <<IF s.ref # None THEN 1 ELSE 0, IF s.type # None THEN 1 ELSE 0,
    IF s.enum # None THEN 1 ELSE 0, IF s.elements # <<>> THEN 1 ELSE 0,
    IF s.properties # <<>> THEN 1 ELSE 0, IF s.optional_properties # <<>> THEN 1 ELSE 0,
    IF s.additional_properties # None THEN 1 ELSE 0, IF s.values # <<>> THEN 1 ELSE 0,
    IF s.discriminator # None THEN 1 ELSE 0, IF s.mapping # <<>> THEN 1 ELSE 0>>

\* the thirteen rows of the valid-form table and the form of each
FormTable ==
  << <<<<0, 0, 0, 0, 0, 0, 0, 0, 0, 0>>, "EMPTY">>,
     <<<<1, 0, 0, 0, 0, 0, 0, 0, 0, 0>>, "REF">>,
     <<<<0, 1, 0, 0, 0, 0, 0, 0, 0, 0>>, "TYPE">>,
     <<<<0, 0, 1, 0, 0, 0, 0, 0, 0, 0>>, "ENUM">>,
     <<<<0, 0, 0, 1, 0, 0, 0, 0, 0, 0>>, "ELEMENTS">>,
     <<<<0, 0, 0, 0, 1, 0, 0, 0, 0, 0>>, "PROPERTIES">>,
     <<<<0, 0, 0, 0, 0, 1, 0, 0, 0, 0>>, "PROPERTIES">>,
     <<<<0, 0, 0, 0, 1, 1, 0, 0, 0, 0>>, "PROPERTIES">>,
     <<<<0, 0, 0, 0, 1, 0, 1, 0, 0, 0>>, "PROPERTIES">>,
     <<<<0, 0, 0, 0, 0, 1, 1, 0, 0, 0>>, "PROPERTIES">>,
     <<<<0, 0, 0, 0, 1, 1, 1, 0, 0, 0>>, "PROPERTIES">>,
     <<<<0, 0, 0, 0, 0, 0, 0, 1, 0, 0>>, "VALUES">>,
     <<<<0, 0, 0, 0, 0, 0, 0, 0, 1, 1>>, "DISCRIMINATOR">> >>

\* C9: Schema.validate rejects every node whose presence pattern is none of
\* the 13 rows of the valid-form table, and on each of the 13 rows
\* Schema.form returns the form the table lists.
C9_FormTotality ==
  pc = "Schema.validate" =>
    /\ (\A j \in 1..Len(FormTable) : Pattern(schema) # FormTable[j][1]) => raised # "none"
    /\ \A j \in 1..Len(FormTable) :
         Pattern(schema) = FormTable[j][1] => form(schema) = FormTable[j][2]

\* a node with additional_properties alone, a string so that no other rule
\* rejects it, is rejected for its form
C9_Witness ==
  /\ Rejected
  /\ raised = "invalid form"
  /\ Pattern(schema) = <<0, 0, 0, 0, 0, 0, 1, 0, 0, 0>>
  /\ form(schema) = "EMPTY"

\* the mapping value v breaks a rule of the mapping of self
BadMappingValue(self, v) ==
  \/ v.nullable = PyBool(TRUE)
  \/ form(v) # "PROPERTIES"
  \/ /\ self.discriminator.py = "str"
     /\ \/ InSeq(self.discriminator.s, OrEmpty(v.properties).keys)
        \/ InSeq(self.discriminator.s, OrEmpty(v.optional_properties).keys)

\* s or a schema nested in it has a mapping with a bad value
RECURSIVE HasBadMapping(_)
HasBadMapping(s) ==
  \/ s.mapping # <<>> /\ \E j \in 1..Len(s.mapping[1].vals) : BadMappingValue(s, s.mapping[1].vals[j])
  \/ s.elements # <<>> /\ HasBadMapping(s.elements[1])
  \/ s.values # <<>> /\ HasBadMapping(s.values[1])
  \/ \E d \in {s.definitions, s.properties, s.optional_properties, s.mapping} :
       d # <<>> /\ \E j \in 1..Len(d[1].vals) : HasBadMapping(d[1].vals[j])

\* a schema of DISCRIMINATOR form, right but for its mapping values
DiscriminatorRoot(s) ==
  /\ Pattern(s) = <<0, 0, 0, 0, 0, 0, 0, 0, 1, 1>>
  /\ s.discriminator.py = "str"
  /\ check_nullable(s) = "none"
  /\ validate_each(s.definitions, s, 1) = "none"

\* C10: Schema.validate rejects a schema that holds, at any depth, a node
\* with a mapping one of whose values is nullable, or not of PROPERTIES form,
\* or declares the discriminator key among its properties or optional
\* properties; it accepts a DISCRIMINATOR schema whose mapping values are
\* non-nullable, of PROPERTIES form, do not redeclare the key and are valid.
C10_MappingValues ==
  pc = "Schema.validate" =>
    /\ HasBadMapping(schema) => raised # "none"
    /\ (/\ DiscriminatorRoot(schema)
        /\ \A j \in 1..Len(schema.mapping[1].vals) :
             /\ ~BadMappingValue(schema, schema.mapping[1].vals[j])
             /\ Schema_validate(schema.mapping[1].vals[j], schema, FALSE) = "none")
         => raised = "none"

\* a nullable mapping value two levels below the root
C10_Witness ==
  /\ Rejected
  /\ raised = "mapping value is nullable"
  /\ form(schema) = "ELEMENTS"
  /\ form(schema.elements[1]) = "VALUES"
  /\ HasBadMapping(schema.elements[1].values[1])

\* the sub-schemas a node holds directly
Children(s) ==
  (IF s.elements # <<>> THEN {s.elements[1]} ELSE {})
  \cup (IF s.values # <<>> THEN {s.values[1]} ELSE {})
  \cup UNION {IF d = <<>> THEN {} ELSE {d[1].vals[j] : j \in 1..Len(d[1].vals)} :
                d \in {s.definitions, s.properties, s.optional_properties, s.mapping}}

\* every node below s, at any depth
RECURSIVE Descendants(_)
Descendants(s) == UNION {{c} \cup Descendants(c) : c \in Children(s)}

\* a node other than the root carries definitions
NonRootDefinitions(root) == \E n \in Descendants(root) : n.definitions # <<>>

\* the ref of node n is no string, or names no definition of the root
BadRef(n, root) ==
  /\ n.ref # None
  /\ \/ n.ref.py # "str"
     \/ root.definitions = <<>>
     \/ ~InSeq(n.ref.s, root.definitions[1].keys)

HasBadRef(root) == \E n \in {root} \cup Descendants(root) : BadRef(n, root)

\* the errors of the rules of definitions and ref
RefMessages ==
  {"non-root definitions", "ref not string", "ref but no definitions",
   "ref to non-existent definition"}

\* a root of REF form, nothing but its ref and definitions present, whose ref
\* lies on a cycle of refs through definitions that are Ref, Type and
\* OptionalProperties schemas with no rule broken
RefCycleRoot(s) ==
  /\ s.ref.py = "str"
  /\ s.definitions # <<>>
  /\ [s EXCEPT !.ref = None, !.definitions = <<>>] = Empty
  /\ ~HasBadRef(s)
  /\ \A j \in 1..Len(s.definitions[1].vals) :
       s.definitions[1].vals[j] \in
         {Definitions[1].vals[k] : k \in 1..Len(Definitions[1].vals)} \cup {Ref("c")}
  /\ RefCycle(s)

\* C11: Schema.validate rejects a schema in which a node other than the root,
\* at any depth, carries definitions (empty ones too), or in which a ref at
\* any depth is no string or names no key of the definitions of the root
\* (the root having none included); the errors of these rules are raised for
\* no other schema, refs being looked up in the definitions of the root only;
\* and a ref whose definitions form a cycle is accepted.
C11_DefinitionsAndRefs ==
  pc = "Schema.validate" =>
    /\ (NonRootDefinitions(schema) \/ HasBadRef(schema)) => raised # "none"
    /\ raised \in RefMessages => (NonRootDefinitions(schema) \/ HasBadRef(schema))
    /\ RefCycleRoot(schema) => raised = "none"

\* a ref below the root names a key that only the definitions of a nested
\* node hold
C11_Witness ==
  /\ Rejected
  /\ raised = "non-root definitions"
  /\ \E n \in Descendants(schema) :
       /\ n.definitions # <<>>
       /\ n.ref.py = "str"
       /\ InSeq(n.ref.s, n.definitions[1].keys)
       /\ BadRef(n, schema)
  /\ schema.definitions # <<>>

----------------------------------------------------------------------------
(* Properties of Schema.from_dict *)

\* the JSON values at the sub-schema positions of the JSON object d
SubSchemas(d) ==
  UNION {IF ~DictHas(d, k) THEN {}
         ELSE IF k \in {"elements", "values"} THEN {DictGet(d, k)}
         ELSE IF DictGet(d, k).py # "dict" THEN {}
         ELSE {DictGet(d, k).items[j] : j \in 1..Len(DictGet(d, k).items)} :
           k \in {SubSchemaKeywords[j] : j \in 1..Len(SubSchemaKeywords)}}

\* d, or a JSON object at a sub-schema position below it at any depth, has a
\* key that is none of the thirteen keywords; metadata is no such position
RECURSIVE HasUnknownKey(_)
HasUnknownKey(d) ==
  /\ d.py = "dict"
  /\ \/ \E j \in 1..Len(d.keys) : d.keys[j] \notin {_KEYWORDS[k] : k \in 1..Len(_KEYWORDS)}
     \/ \E v \in SubSchemas(d) : HasUnknownKey(v)

\* d is a JSON object whose sub-schema positions hold JSON objects of this
\* kind, the fields of definitions, properties, optionalProperties and
\* mapping being JSON objects of them
RECURSIVE WellShaped(_)
WellShaped(d) ==
  /\ d.py = "dict"
  /\ \A k \in {"definitions", "properties", "optionalProperties", "mapping"} :
       DictHas(d, k) => DictGet(d, k).py = "dict"
  /\ \A v \in SubSchemas(d) : WellShaped(v)

\* C12: Schema.from_dict raises and returns no Schema for a JSON object that
\* has a key outside the thirteen keywords, on the root or on a sub-schema at
\* any depth under definitions, elements, properties, optionalProperties,
\* values or mapping; the keys inside metadata are not inspected: from_dict
\* returns a Schema for every well-shaped object without such a key.
C12_UnknownKeywords ==
  pc # "start" =>
    /\ HasUnknownKey(dict) => (LoadFailed /\ raised # "none")
    /\ (WellShaped(dict) /\ ~HasUnknownKey(dict)) => LoadReturned

\* an unknown key two levels below the root makes from_dict raise
C12_Witness ==
  /\ LoadFailed
  /\ raised = "AttributeError: illegal keyword"
  /\ \A j \in 1..Len(dict.keys) : InSeq(dict.keys[j], _KEYWORDS)
  /\ \A v \in SubSchemas(dict) :
       v.py = "dict" /\ \A j \in 1..Len(v.keys) : InSeq(v.keys[j], _KEYWORDS)
  /\ HasUnknownKey(dict)

\* the eleven type tags
TypeTags ==
  {"boolean", "int8", "uint8", "int16", "uint16", "int32", "uint32", "float32",
   "float64", "string", "timestamp"}

\* v is a non-empty list of strings without duplicates
StringList(v) ==
  /\ v.py = "list"
  /\ v.items # <<>>
  /\ \A j \in 1..Len(v.items) : v.items[j].py = "str"
  /\ \A j, k \in 1..Len(v.items) : v.items[j].s = v.items[k].s => j = k

\* the value the JSON object d has for keyword k does not conform
NonConforming(d, k) ==
  /\ DictHas(d, k)
  /\ CASE k = "nullable" -> DictGet(d, k).py # "bool"
       [] k \in {"ref", "discriminator"} -> DictGet(d, k).py # "str"
       [] k = "type" -> ~(DictGet(d, k).py = "str" /\ DictGet(d, k).s \in TypeTags)
       [] k = "enum" -> ~StringList(DictGet(d, k))

VerbatimKeywords == {"nullable", "ref", "discriminator", "type", "enum"}

\* C13: a schema JSON object in which nullable is present and no JSON
\* boolean, or ref or discriminator is present and no JSON string, or type is
\* present and none of the eleven type tags, or enum is present and no
\* non-empty duplicate-free list of strings, is rejected by Schema.from_dict
\* followed by Schema.validate, whatever the non-conforming value is, JSON
\* null included.
C13_KeywordValues ==
  (pc \in {"Schema.from_dict", "Schema.validate"}
     /\ \E k \in VerbatimKeywords : NonConforming(dict, k))
    => raised # "none"

====
